---- MODULE Spec2Model ----
(***************************************************************************)
(* Employee search service: the dataset registry of main.py and the        *)
(* retrieval -> filter -> score -> sort pipeline of                        *)
(* utils/hr_search_engine.py.                                              *)
(*                                                                         *)
(* Representation.                                                         *)
(*  - A Python str is a sequence of one-character strings, so that strip,  *)
(*    lower and split are computed, not assumed.                           *)
(*  - A real number is a fixed-point integer counted in 1/Unit; the three  *)
(*    weights are counted in tenths, so a final score is counted in        *)
(*    1/(10*Unit).  Every quotient the scoring takes is exact in Unit.     *)
(*  - The sentence encoder is an opaque text -> unit vector function; it   *)
(*    is modelled by a table of rational points of the unit circle         *)
(*    (coordinates in fifths), whose inner products are exact.             *)
(***************************************************************************)
EXTENDS Integers, Sequences, FiniteSets, TLC

VARIABLES ENGINES, req, resp

vars == <<ENGINES, req, resp>>

\* ------------------------------------------------------------------------
\* Bounds of the model
\* ------------------------------------------------------------------------
\* Small datasets hold 0..MaxSmall rows.
MaxSmall == 3
\* Large datasets hold TOP_K_RAW..TOP_K_RAW+MaxExtra rows.
MaxExtra == 1

\* ------------------------------------------------------------------------
\* Configuration (hr_search_engine.py, lines 14-17); weights in tenths
\* ------------------------------------------------------------------------
ROLE_WEIGHT == 5
SKILL_WEIGHT == 3
AGE_WEIGHT == 2
TOP_K_RAW == 20

\* Fixed-point unit of similarity, skill ratio and age score.
Unit == 9 * 1000

\* ------------------------------------------------------------------------
\* Python str operations
\* ------------------------------------------------------------------------
Whitespace == {" ", "\t"}

LowerChar(c) ==
  CASE c = "P" -> "p"
    [] c = "Y" -> "y"
    [] c = "S" -> "s"
    [] c = "Q" -> "q"
    [] c = "L" -> "l"
    [] c = "D" -> "d"
    [] c = "B" -> "b"
    [] c = "T" -> "t"
    [] c = "X" -> "x"
    [] OTHER -> c

\* str.lower()
Lower(s) == [i \in 1..Len(s) |-> LowerChar(s[i])]

RECURSIVE LStrip(_)
LStrip(s) ==
  IF s = <<>> THEN <<>>
  ELSE IF Head(s) \in Whitespace THEN LStrip(Tail(s)) ELSE s

RECURSIVE RStrip(_)
RStrip(s) ==
  IF s = <<>> THEN <<>>
  ELSE IF s[Len(s)] \in Whitespace THEN RStrip(SubSeq(s, 1, Len(s) - 1)) ELSE s

\* str.strip()
Strip(s) == RStrip(LStrip(s))

\* str.split(","): the pieces between commas, empty pieces included.
RECURSIVE SplitFrom(_, _, _)
SplitFrom(s, i, cur) ==
  IF i > Len(s) THEN <<cur>>
  ELSE IF s[i] = "," THEN <<cur>> \o SplitFrom(s, i + 1, <<>>)
  ELSE SplitFrom(s, i + 1, Append(cur, s[i]))

Split(s) == SplitFrom(s, 1, <<>>)

\* Code point order of the characters in use, for sorted().
CharCode(c) ==
  CASE c = "\t" -> 9
    [] c = " " -> 32
    [] c = "," -> 44
    [] c = "B" -> 66
    [] c = "D" -> 68
    [] c = "L" -> 76
    [] c = "P" -> 80
    [] c = "Q" -> 81
    [] c = "S" -> 83
    [] c = "T" -> 84
    [] c = "Y" -> 89
    [] c = "b" -> 98
    [] c = "d" -> 100
    [] c = "f" -> 102
    [] c = "g" -> 103
    [] c = "j" -> 106
    [] c = "l" -> 108
    [] c = "o" -> 111
    [] c = "p" -> 112
    [] c = "q" -> 113
    [] c = "s" -> 115
    [] c = "t" -> 116
    [] c = "v" -> 118
    [] c = "y" -> 121

\* Python's str "<": lexicographic by code point.
RECURSIVE StrLess(_, _)
StrLess(a, b) ==
  IF b = <<>> THEN FALSE
  ELSE IF a = <<>> THEN TRUE
  ELSE IF Head(a) = Head(b) THEN StrLess(Tail(a), Tail(b))
  ELSE CharCode(Head(a)) < CharCode(Head(b))

\* sorted(set of str)
RECURSIVE SortedStrs(_)
SortedStrs(S) ==
  IF S = {} THEN <<>>
  ELSE LET m == CHOOSE x \in S : \A y \in S \ {x} : StrLess(x, y)
       IN <<m>> \o SortedStrs(S \ {m})

\* {k.strip().lower() for k in items if k.strip()}
NormalizeSkills(items) ==
  {Lower(Strip(items[i])) : i \in {j \in 1..Len(items) : Strip(items[j]) # <<>>}}

Range(s) == {s[i] : i \in 1..Len(s)}

Min2(a, b) == IF a <= b THEN a ELSE b

Max2(a, b) == IF a >= b THEN a ELSE b

Abs(x) == IF x < 0 THEN -x ELSE x

\* ------------------------------------------------------------------------
\* The sentence encoder and the inner product
\* ------------------------------------------------------------------------
\* encode(text, normalize_embeddings=True): a unit vector, here a rational
\* point of the unit circle with coordinates in fifths.
Encode(text) ==
  CASE text = "backend engineer" -> <<5, 0>>
    [] text = "data engineer" -> <<4, 3>>
    [] text = "analytics engineer using snowflake and dbt" -> <<3, 4>>
    [] text = "sales lead" -> <<-3, 4>>
    [] OTHER -> <<0, 5>>

\* Inner product of two encoded vectors, in 1/Unit.
InnerProduct(u, v) == (u[1] * v[1] + u[2] * v[2]) * (Unit \div 25)

\* ------------------------------------------------------------------------
\* Scoring helpers
\* ------------------------------------------------------------------------
\* math.exp(-k/20) in 1/Unit, k = 0..170, rounded to the nearest integer.
ExpTable ==
  <<
     9000, 8561, 8144, 7746, 7369, 7009, 6667, 6342, 6033, 5739, 5459, 5193,
     4939, 4698, 4469, 4251, 4044, 3847, 3659, 3481, 3311, 3149, 2996, 2850,
     2711, 2579, 2453, 2333, 2219, 2111, 2008, 1910, 1817, 1728, 1644, 1564,
     1488, 1415, 1346, 1280, 1218, 1159, 1102, 1048, 997, 949, 902, 858,
     816, 777, 739, 703, 668, 636, 605, 575, 547, 521, 495, 471,
     448, 426, 405, 386, 367, 349, 332, 316, 300, 286, 272, 259,
     246, 234, 223, 212, 201, 192, 182, 173, 165, 157, 149, 142,
     135, 128, 122, 116, 110, 105, 100, 95, 90, 86, 82, 78,
     74, 70, 67, 64, 61, 58, 55, 52, 50, 47, 45, 43,
     41, 39, 37, 35, 33, 32, 30, 29, 27, 26, 25, 23,
     22, 21, 20, 19, 18, 17, 17, 16, 15, 14, 14, 13,
     12, 12, 11, 11, 10, 10, 9, 9, 8, 8, 7, 7,
     7, 6, 6, 6, 6, 5, 5, 5, 5, 4, 4, 4,
     4, 4, 3, 3, 3, 3, 3, 3, 2, 2, 2, 2,
     2, 2, 2
  >>

\* _age_score: 1.0 inside the range, otherwise exp(-|age - mid| / 10) with
\* mid = (min_age + max_age) / 2, i.e. exp(-|2*age - min - max| / 20).
age_score(age, min_age, max_age) ==
  IF min_age <= age /\ age <= max_age THEN Unit
  ELSE ExpTable[Min2(Abs(2 * age - (min_age + max_age)), Len(ExpTable) - 1) + 1]

\* _skills_match_ratio, in 1/Unit.
skills_match_ratio(candidate_skills, required_keywords) ==
  IF required_keywords = {} THEN Unit
  ELSE IF ~(required_keywords \subseteq candidate_skills) THEN 0
  ELSE (Cardinality(required_keywords) * Unit)
         \div Max2(Cardinality(candidate_skills), 1)

\* The role and skill weights exchanged.
FinalScoreSwapped(sim, skill_ratio, age_s) ==
  SKILL_WEIGHT * sim + ROLE_WEIGHT * skill_ratio + AGE_WEIGHT * age_s

\* final_score, in 1/(10*Unit).
FinalScore(sim, skill_ratio, age_s) ==
  ROLE_WEIGHT * sim + SKILL_WEIGHT * skill_ratio + AGE_WEIGHT * age_s

\* ------------------------------------------------------------------------
\* Spreadsheets
\* ------------------------------------------------------------------------
\* A cell is a sequence: <<>> is the blank cell (pandas reads it as NaN), a
\* text cell is its characters, a number cell is <<n>>.
Blank == <<>>

RequiredCols ==
  {"Employee Name", "Employee Skills", "Employee Age",
   "Employee Roles & Responsibilities"}

Row(name, skills, age, roles) ==
  [c \in RequiredCols \cup {"Notes"} |->
     CASE c = "Employee Name" -> name
       [] c = "Employee Skills" -> skills
       [] c = "Employee Age" -> age
       [] c = "Employee Roles & Responsibilities" -> roles
       [] OTHER -> Blank]

\* A clean sheet; its first three rows are Alice, Bob and Carol.
Sheet1 ==
  << Row("Alice", <<"p","y",",","s","q","l">>, <<30>>, "backend engineer"),
     Row("Bob", <<"p","y",",","d","b","t",",","s","f">>, <<45>>,
         "analytics engineer using snowflake and dbt"),
     Row("Carol", <<"j","v">>, <<60>>, "backend engineer"),
     Row("Dan", <<"p","y",",","s","q","l",",","d","b","t">>, <<29>>,
         "data engineer"),
     Row("Eve", <<"p","y">>, <<46>>,
         "analytics engineer using snowflake and dbt") >>

\* A messy sheet: stray blanks and capitals, empty list items, and a row
\* whose skills and age cells are blank.
Sheet2 ==
  << Row("Ann", <<" ","P","y"," ",","," ","S","Q","L"," ">>, <<30>>,
         "backend engineer"),
     Row("Ben", <<"p","y",",","s","q","l",",","d","b","t",",",",">>, <<45>>,
         "data engineer"),
     Row("Cy", Blank, Blank, "sales lead") >>

Sheets == <<Sheet1, Sheet2>>

\* The first n rows of sheet v, the sheet repeating after its last row.
Sample(v, n) ==
  [i \in 1..n |-> Sheets[v][((i - 1) % Len(Sheets[v])) + 1]]

\* Row counts: small datasets, and datasets around the size of the raw pool.
SmallSizes == 0..MaxSmall

LargeSizes == TOP_K_RAW..(TOP_K_RAW + MaxExtra)

\* The sheets uploaded: both samples at the small sizes, the clean one at
\* the large sizes too.
Datasets ==
  {Sample(v, n) : v \in 1..Len(Sheets), n \in SmallSizes}
  \cup {Sample(1, n) : n \in LargeSizes}

\* An uploaded file: its name, whether pd.read_excel can decode it, its
\* column headers, and its rows (each row restricted to the columns).
MakeFile(filename, readable, columns, rows) ==
  [filename |-> filename, readable |-> readable, columns |-> columns,
   rows |-> [i \in 1..Len(rows) |-> [c \in columns |-> rows[i][c]]]]

NameXlsx == <<"h","r",".","x","l","s","x">>
NameXLS == <<"H","R",".","X","L","S">>
NameCsv == <<"h","r",".","c","s","v">>

\* The uploads: every sheet under an Excel name with all columns; one sheet
\* with every subset of the required columns dropped, with and without a
\* column that is not required; one under another capitalisation of the
\* extension, one under a name that is not Excel's, one that cannot be read.
Files ==
  {MakeFile(NameXlsx, TRUE, RequiredCols, rows) : rows \in Datasets}
  \cup {MakeFile(NameXlsx, TRUE, (RequiredCols \ D) \cup X, Sample(1, 1)) :
          D \in SUBSET RequiredCols, X \in {{}, {"Notes"}}}
  \cup {MakeFile(NameXLS, TRUE, RequiredCols, Sample(2, 1)),
        MakeFile(NameCsv, TRUE, RequiredCols, Sample(1, 1)),
        MakeFile(NameXlsx, FALSE, RequiredCols, Sample(1, 1))}

\* ------------------------------------------------------------------------
\* EmployeeSearchEngine: construction
\* ------------------------------------------------------------------------
\* df["Employee Skills"].fillna("") then
\* {k.strip().lower() for k in str(s).split(",") if k.strip()}
ParseSkillCell(cell) == NormalizeSkills(Split(cell))

\* Only one missing column reported.
MissingColsFirst(columns) ==
  IF RequiredCols \ columns = {} THEN {}
  ELSE {CHOOSE c \in RequiredCols \ columns : TRUE}

\* missing = required_cols - set(df.columns)
MissingCols(columns) == RequiredCols \ columns

\* _load_and_prepare: the parsed frame with its skill_set column, or the
\* exception raised.
load_and_prepare(file) ==
  LET missing == MissingCols(file.columns)
  IN IF ~file.readable THEN [ok |-> FALSE, error |-> "read_excel", missing |-> {}]
     ELSE IF missing # {} THEN [ok |-> FALSE, error |-> "missing columns", missing |-> missing]
     ELSE [ok |-> TRUE,
           df |-> [i \in 1..Len(file.rows) |->
                     [c \in file.columns \cup {"skill_set"} |->
                        IF c = "skill_set"
                        THEN ParseSkillCell(file.rows[i]["Employee Skills"])
                        ELSE file.rows[i][c]]]]

\* A constructor that swallows the encoder's failure and keeps an engine
\* without embeddings.
EngineInitLenient(file, model_ok) ==
  LET loaded == load_and_prepare(file)
  IN IF ~loaded.ok THEN loaded
     ELSE IF ~model_ok \/ Len(loaded.df) = 0
     THEN [ok |-> TRUE,
           engine |-> [df |-> loaded.df, embeddings |-> <<>>,
                       faiss_index |-> <<>>]]
     ELSE LET embeddings ==
                [i \in 1..Len(loaded.df) |->
                   Encode(loaded.df[i]["Employee Roles & Responsibilities"])]
          IN [ok |-> TRUE,
              engine |-> [df |-> loaded.df, embeddings |-> embeddings,
                          faiss_index |-> embeddings]]

\* __init__: frame, encoder, embeddings, index; any step may raise.
\* model_ok is whether SentenceTransformer(EMBEDDING_MODEL_PATH) loads.
\* encode([]) yields an array of shape (0,), so reading shape[1] raises.
EngineInit(file, model_ok) ==
  LET loaded == load_and_prepare(file)
  IN IF ~loaded.ok THEN loaded
     ELSE IF ~model_ok THEN [ok |-> FALSE, error |-> "model", missing |-> {}]
     ELSE LET embeddings ==
                [i \in 1..Len(loaded.df) |->
                   Encode(loaded.df[i]["Employee Roles & Responsibilities"])]
          IN IF Len(embeddings) = 0
             THEN [ok |-> FALSE, error |-> "shape", missing |-> {}]
             ELSE [ok |-> TRUE,
                   engine |-> [df |-> loaded.df,
                               embeddings |-> embeddings,
                               faiss_index |-> embeddings]]

\* ------------------------------------------------------------------------
\* The vector index (faiss.IndexFlatIP)
\* ------------------------------------------------------------------------
\* The similarity the index reports for a slot it cannot fill (-FLT_MAX).
MissingSim == 0 - 4 * Unit

\* The index returning the smallest inner products first, as a distance
\* index would.
BeforeAscending(sims, tie, i, j) ==
  \/ sims[i] < sims[j]
  \/ /\ sims[i] = sims[j]
     /\ IF tie = "low" THEN i < j ELSE i > j

\* The order in which the index returns two stored vectors: the larger inner
\* product first; between equal inner products the library decides, and
\* tie says which way ("low": lower position first, "high": the reverse).
Before(sims, tie, i, j) ==
  \/ sims[i] > sims[j]
  \/ /\ sims[i] = sims[j]
     /\ IF tie = "low" THEN i < j ELSE i > j

\* Position i put into acc, a list of positions already in return order.
InsertByOrder(acc, i, sims, tie) ==
  LET k == Cardinality({p \in 1..Len(acc) : Before(sims, tie, acc[p], i)})
  IN SubSeq(acc, 1, k) \o <<i>> \o SubSeq(acc, k + 1, Len(acc))

\* The stored positions i..Len(sims) put into acc.
RECURSIVE OrderFrom(_, _, _, _)
OrderFrom(sims, tie, i, acc) ==
  IF i > Len(sims) THEN acc
  ELSE OrderFrom(sims, tie, i + 1, InsertByOrder(acc, i, sims, tie))

\* The inner product of every stored vector with the query.
RECURSIVE SimsFrom(_, _, _, _)
SimsFrom(index, query_vec, i, acc) ==
  IF i > Len(index) THEN acc
  ELSE SimsFrom(index, query_vec, i + 1,
                Append(acc, InnerProduct(index[i], query_vec)))

\* Slots p..k of the answer: the next stored position in return order, or
\* the filler once the index is exhausted.
RECURSIVE Slots(_, _, _, _, _)
Slots(order, sims, k, p, acc) ==
  IF p > k THEN acc
  ELSE Slots(order, sims, k, p + 1,
             Append(acc, IF p <= Len(order)
                         THEN <<order[p] - 1, sims[order[p]]>>
                         ELSE <<-1, MissingSim>>))

\* index.search(query_vec, k): k pairs of a label (the 0-based position, -1
\* where the index holds fewer than k vectors) and its inner product; this
\* is zip(I[0], D[0]).
FaissSearch(index, query_vec, k, tie) ==
  LET sims == SimsFrom(index, query_vec, 1, <<>>)
  IN Slots(OrderFrom(sims, tie, 1, <<>>), sims, k, 1, <<>>)

\* ------------------------------------------------------------------------
\* EmployeeSearchEngine.search
\* ------------------------------------------------------------------------
\* "{x:.2f}": hundredths, rounded.
Round2(x) == (x * 100 + Unit \div 2) \div Unit

\* The dictionary appended for a surviving row.  idx and sim are not keys of
\* the program's dictionary: they record the row position and the index's
\* inner product the entry was built from.
Candidate(row, idx, sim, skill_ratio, age_s, required_keywords) ==
  [name |-> row["Employee Name"],
   age |-> row["Employee Age"][1],
   skills |-> SortedStrs(row["skill_set"]),
   roles |-> row["Employee Roles & Responsibilities"],
   score |-> FinalScore(sim, skill_ratio, age_s),
   justification |-> [role_sim |-> Round2(sim),
                      skills_present |-> required_keywords # {},
                      age_score |-> Round2(age_s)],
   idx |-> idx,
   sim |-> sim]

\* The skill filter asking for any required keyword instead of all of them.
SkillsPassAny(skill_set, required_keywords) ==
  required_keywords = {} \/ required_keywords \cap skill_set # {}

\* The hard skill filter of a pool row (line 100).
SkillsPass(skill_set, required_keywords) ==
  ~(required_keywords # {} /\ ~(required_keywords \subseteq skill_set))

\* The age filter without its upper bound.
AgePassMinOnly(age, age_min, age_max) == age_min <= age

\* The hard age filter of a pool row (line 107).
AgePass(age, age_min, age_max) == age_min <= age /\ age <= age_max

\* The loop over zip(idxs, sims) from slot p on, cands being the list built
\* so far; int() of a blank age raises.
RECURSIVE Scan(_, _, _, _, _, _, _)
Scan(df, found, p, required_keywords, age_min, age_max, cands) ==
  IF p > Len(found) THEN [ok |-> TRUE, candidates |-> cands]
  ELSE
    LET idx == found[p][1]
        sim == found[p][2]
    IN IF idx = -1
       THEN Scan(df, found, p + 1, required_keywords, age_min, age_max, cands)
       ELSE
         LET row == df[idx + 1]
             skill_set == row["skill_set"]
         IN IF ~SkillsPass(skill_set, required_keywords)
            THEN Scan(df, found, p + 1, required_keywords, age_min, age_max, cands)
            ELSE IF row["Employee Age"] = Blank
            THEN [ok |-> FALSE, candidates |-> <<>>]
            ELSE
              LET age == row["Employee Age"][1]
                  skill_ratio == skills_match_ratio(skill_set, required_keywords)
                  age_s == age_score(age, age_min, age_max)
              IN IF ~AgePass(age, age_min, age_max)
                 THEN Scan(df, found, p + 1, required_keywords, age_min, age_max, cands)
                 ELSE Scan(df, found, p + 1, required_keywords, age_min, age_max,
                           Append(cands, Candidate(row, idx, sim, skill_ratio,
                                                   age_s, required_keywords)))

\* candidates.sort(key=score, reverse=True): descending by score; the sort
\* is stable, so entries of equal score keep the order they were appended in.
\* An unstable sort: an entry goes in front of the entries of equal score.
InsertByScoreTiesFirst(acc, c) ==
  LET k == Cardinality({p \in 1..Len(acc) : acc[p].score > c.score})
  IN SubSeq(acc, 1, k) \o <<c>> \o SubSeq(acc, k + 1, Len(acc))

\* The sort without reverse=True: ascending by score.
InsertByScoreAscending(acc, c) ==
  LET k == Cardinality({p \in 1..Len(acc) : acc[p].score <= c.score})
  IN SubSeq(acc, 1, k) \o <<c>> \o SubSeq(acc, k + 1, Len(acc))

\* Entry c put into acc, a list already in sorted order, behind every entry
\* that sorts before it.
InsertByScore(acc, c) ==
  LET k == Cardinality({p \in 1..Len(acc) : acc[p].score >= c.score})
  IN SubSeq(acc, 1, k) \o <<c>> \o SubSeq(acc, k + 1, Len(acc))

RECURSIVE SortFrom(_, _, _)
SortFrom(cands, i, acc) ==
  IF i > Len(cands) THEN acc
  ELSE SortFrom(cands, i + 1, InsertByScore(acc, cands[i]))

SortByScore(cands) == SortFrom(cands, 1, <<>>)

\* The list returned whole, without the slice.
TakeAll(s, k) == s

\* The slice s[:k].
Take(s, k) ==
  IF k >= 0 THEN SubSeq(s, 1, Min2(k, Len(s)))
  ELSE SubSeq(s, 1, Max2(Len(s) + k, 0))

\* Optional[...]: None, or a value.
None == <<>>

Some(x) == <<x>>

\* skills or []: the list, or the empty list for None and for an empty list.
OrEmpty(skills) == IF skills = None THEN <<>> ELSE skills[1]

\* search(): the returned list and the raw pool it was built from, or the
\* failure of the call.
EngineSearch(engine, query, skills, age_min, age_max, top_k, tie) ==
  LET required_keywords == NormalizeSkills(OrEmpty(skills))
      query_vec == Encode(query)
      found == FaissSearch(engine.faiss_index, query_vec, TOP_K_RAW, tie)
      scanned == Scan(engine.df, found, 1, required_keywords, age_min, age_max, <<>>)
  IN IF ~scanned.ok THEN [ok |-> FALSE, results |-> <<>>, pool |-> found]
     ELSE [ok |-> TRUE,
           results |-> Take(SortByScore(scanned.candidates), top_k),
           pool |-> found]

\* ------------------------------------------------------------------------
\* The service (main.py)
\* ------------------------------------------------------------------------
\* Sample values of uuid.uuid4().hex[:8].
Ids == {"f9a7c3b2", "0c51d2e8"}

Queries == {"backend engineer", "data engineer"}

SkillInputs ==
  { None,
    Some(<< <<" ","P","y"," ">> >>),
    Some(<< <<"s","q","l">>, <<"P","Y">>, <<>> >>),
    Some(<< <<" "," ">> >>) }

AgeMins == {16, 30}

AgeMaxs == {29, 45, 99}

TopKs == {1, 2, TOP_K_RAW, TOP_K_RAW + 1}

TieOrders == {"low", "high"}

\* str.endswith(suffix)
EndsWith(s, suffix) ==
  /\ Len(s) >= Len(suffix)
  /\ SubSeq(s, Len(s) - Len(suffix) + 1, Len(s)) = suffix

\* file.filename.lower().endswith(('.xls', '.xlsx'))
IsExcelName(filename) ==
  \/ EndsWith(Lower(filename), <<".","x","l","s">>)
  \/ EndsWith(Lower(filename), <<".","x","l","s","x">>)

\* SearchRequest: conint(ge=16, le=99) twice, conint(ge=1, le=20).
ValidRequest(age_min, age_max, top_k) ==
  /\ 16 <= age_min /\ age_min <= 99
  /\ 16 <= age_max /\ age_max <= 99
  /\ 1 <= top_k /\ top_k <= 20

\* ENGINES[dataset_id] = engine
Register(registry, dataset_id, engine) ==
  [id \in DOMAIN registry \cup {dataset_id} |->
     IF id = dataset_id THEN engine ELSE registry[id]]

Init ==
  /\ ENGINES = <<>>
  /\ req = [op |-> "none"]
  /\ resp = [op |-> "none", status |-> 0]

\* No request is being answered: the event loop runs one handler at a time,
\* and neither handler awaits, so a handler starts only once the previous
\* response has gone out.
Idle == resp.op = "none"

\* POST /dataset
upload_dataset ==
  \E file \in Files, model_ok \in BOOLEAN, dataset_id \in Ids :
    LET built == EngineInit(file, model_ok)
    IN /\ Idle
       /\ req' = [op |-> "upload", file |-> file]
       /\ IF ~IsExcelName(file.filename)
          THEN /\ resp' = [op |-> "upload", status |-> 415]
               /\ UNCHANGED ENGINES
          ELSE IF ~built.ok
          THEN /\ resp' = [op |-> "upload", status |-> 400,
                           error |-> built.error, missing |-> built.missing]
               /\ UNCHANGED ENGINES
          ELSE /\ ENGINES' = Register(ENGINES, dataset_id, built.engine)
               /\ resp' = [op |-> "upload", status |-> 201,
                           dataset_id |-> dataset_id]

\* The handler checking the age range before it looks the dataset up.
search_response_age_first(registry, r, tie) ==
  IF r.age_min > r.age_max
  THEN [op |-> "search", status |-> 400]
  ELSE IF r.dataset_id \notin DOMAIN registry
  THEN [op |-> "search", status |-> 404]
  ELSE LET out == EngineSearch(registry[r.dataset_id], r.query,
                               Some(OrEmpty(r.skills)), r.age_min, r.age_max,
                               r.top_k, tie)
       IN IF ~out.ok
          THEN [op |-> "search", status |-> 500]
          ELSE [op |-> "search", status |-> 200,
                results |-> out.results, pool |-> out.pool]

\* The body of the /search handler on a validated request: the response.
search_response(registry, r, tie) ==
  IF r.dataset_id \notin DOMAIN registry
  THEN [op |-> "search", status |-> 404]
  ELSE IF r.age_min > r.age_max
  THEN [op |-> "search", status |-> 400]
  ELSE LET out == EngineSearch(registry[r.dataset_id], r.query,
                               Some(OrEmpty(r.skills)), r.age_min, r.age_max,
                               r.top_k, tie)
       IN IF ~out.ok
          THEN [op |-> "search", status |-> 500]
          ELSE [op |-> "search", status |-> 200,
                results |-> out.results, pool |-> out.pool]

\* POST /search: the request model is validated before the handler runs.
search ==
  \E dataset_id \in Ids, query \in Queries, skills \in SkillInputs,
     age_min \in AgeMins, age_max \in AgeMaxs, top_k \in TopKs,
     tie \in TieOrders :
    LET r == [op |-> "search", dataset_id |-> dataset_id, query |-> query,
              skills |-> skills, age_min |-> age_min, age_max |-> age_max,
              top_k |-> top_k]
    IN /\ Idle
       /\ req' = r
       /\ UNCHANGED ENGINES
       /\ resp' = IF ~ValidRequest(age_min, age_max, top_k)
                  THEN [op |-> "search", status |-> 422]
                  ELSE search_response(ENGINES, r, tie)

\* The framework sends the handler's response (or the HTTPException raised)
\* to the client; the registry is all that stays.
send_response ==
  /\ ~Idle
  /\ req' = [op |-> "none"]
  /\ resp' = [op |-> "none", status |-> 0]
  /\ UNCHANGED ENGINES

Next == upload_dataset \/ search \/ send_response

Spec == Init /\ [][Next]_vars

\* ------------------------------------------------------------------------
\* Properties
\* ------------------------------------------------------------------------
\* The last request was a search and it was answered with a result list.
Answered == resp.op = "search" /\ resp.status = 200

\* The request's required skills: trimmed, lowercased, blanks dropped.
Required == NormalizeSkills(OrEmpty(req.skills))

\* The frame of the dataset the last search named.
Frame == ENGINES[req.dataset_id].df

\* The row a returned entry was built from.
RowOf(c) == Frame[c.idx + 1]

Results == resp.results

\* C1: when the normalized required-skill set is non-empty, every returned
\* candidate lists all required skills, and the row it was built from has
\* them all: a row missing a required skill is never returned.
C1_SkillsHardFilter ==
  (Answered /\ Required # {}) =>
    \A i \in 1..Len(Results) :
      /\ Required \subseteq Range(Results[i].skills)
      /\ Required \subseteq RowOf(Results[i])["skill_set"]

\* A search with required skills returned someone while a row of the raw
\* pool lacked a required skill.
C1_Witness ==
  /\ Answered /\ Required # {} /\ Len(Results) >= 1
  /\ \E p \in 1..Len(resp.pool) :
       /\ resp.pool[p][1] # -1
       /\ ~(Required \subseteq Frame[resp.pool[p][1] + 1]["skill_set"])

C3_Cap ==
  (Answered /\ req.top_k >= 1) =>
    /\ Len(Results) <= req.top_k
    /\ Len(Results) <= TOP_K_RAW
    /\ Len(Results) <= Len(Frame)
    /\ \A i \in 1..Len(Results) : Results[i].idx \in 0..(Len(Frame) - 1)

\* A dataset smaller than the pool: the index's answer has filler slots and
\* every row of the dataset is returned.
C3_Witness ==
  /\ Answered /\ req.top_k >= 1
  /\ \E p \in 1..Len(resp.pool) : resp.pool[p][1] = -1
  /\ Len(Results) = Len(Frame)
  /\ Len(Results) >= 2

\* C4: the result is in non-increasing order of final score.
C4_Sorted ==
  Answered =>
    \A i \in 1..(Len(Results) - 1) : Results[i].score >= Results[i + 1].score

\* Two returned entries of different score stand in the opposite order of
\* their similarities: the sort moved them.
C4_Witness ==
  /\ Answered
  /\ \E i \in 1..(Len(Results) - 1) :
       /\ Results[i].score > Results[i + 1].score
       /\ Results[i].sim < Results[i + 1].sim

\* The raw pool of the last answered search: slot p holds <<label, sim>>.
Pool == resp.pool

\* The slots of the raw pool that hold a row.
Filled == {p \in 1..Len(Pool) : Pool[p][1] # -1}

PoolRow(p) == Frame[Pool[p][1] + 1]

\* The slot of the raw pool that holds row position idx.
PoolPos(idx) == CHOOSE p \in 1..Len(Pool) : Pool[p][1] = idx

HasRequired(row) == Required \subseteq row["skill_set"]

InAgeRange(row) ==
  /\ row["Employee Age"] # Blank
  /\ req.age_min <= row["Employee Age"][1]
  /\ row["Employee Age"][1] <= req.age_max

\* The pool slots whose row has all required skills and an age in range.
Survivors == {p \in Filled : HasRequired(PoolRow(p)) /\ InAgeRange(PoolRow(p))}

\* The final score the specification gives a row of similarity sim, in
\* 1/(10*Unit): 0.5 sim + 0.3 skill_ratio + 0.2.
SpecScore(row, sim) ==
  5 * sim
  + 3 * (IF Required = {} THEN Unit
         ELSE (Cardinality(Required) * Unit)
                \div (IF row["skill_set"] = {} THEN 1
                      ELSE Cardinality(row["skill_set"])))
  + 2 * Unit

Returned == {Results[i].idx : i \in 1..Len(Results)}

\* C5 as stated: of two survivors of equal final score the one lower in the
\* dataset comes first, and is the one kept when top_k cuts between them.
C5_TiesByRowOrder ==
  Answered =>
    /\ \A i, j \in 1..Len(Results) :
         (i < j /\ Results[i].score = Results[j].score)
           => Results[i].idx < Results[j].idx
    /\ \A i \in 1..Len(Results) : \A p \in Survivors :
         (Pool[p][1] \notin Returned
          /\ SpecScore(PoolRow(p), Pool[p][2]) = Results[i].score)
           => Results[i].idx < Pool[p][1]

\* C5 (amended): of two survivors of equal final score the one the index
\* returned earlier in the raw pool comes first, and is the one kept when
\* top_k cuts between them.
C5_TiesByPoolOrder ==
  Answered =>
    /\ \A i, j \in 1..Len(Results) :
         (i < j /\ Results[i].score = Results[j].score)
           => PoolPos(Results[i].idx) < PoolPos(Results[j].idx)
    /\ \A i \in 1..Len(Results) : \A p \in Survivors :
         (Pool[p][1] \notin Returned
          /\ SpecScore(PoolRow(p), Pool[p][2]) = Results[i].score)
           => PoolPos(Results[i].idx) < p

\* Two returned entries of equal final score and different similarity, the
\* one lower in the dataset second.
C5_Witness ==
  /\ Answered
  /\ \E i, j \in 1..Len(Results) :
       /\ i < j
       /\ Results[i].score = Results[j].score
       /\ Results[i].sim > Results[j].sim
       /\ Results[i].idx > Results[j].idx

\* C6: a load that reaches the column check with required columns absent
\* fails naming exactly the absent required columns; with all four present
\* it never fails on missing columns.
C6_SchemaError ==
  (resp.op = "upload" /\ IsExcelName(req.file.filename) /\ req.file.readable) =>
    LET absent == {c \in RequiredCols : c \notin req.file.columns}
    IN /\ absent # {} =>
            /\ resp.status = 400
            /\ resp.error = "missing columns"
            /\ resp.missing = absent
       /\ absent = {} =>
            ~(resp.status = 400 /\ resp.error = "missing columns")

\* An upload lacking two required columns, and carrying a column that is
\* not required, was refused naming both.
C6_Witness ==
  /\ resp.op = "upload" /\ resp.status = 400
  /\ resp.error = "missing columns"
  /\ Cardinality(resp.missing) = 2
  /\ "Notes" \in req.file.columns

\* A registered engine is complete: at least one row, every row parsed with
\* its skill_set, one embedding per row computed from the row's role text,
\* and the index built over exactly these embeddings.
FullyBuilt(e) ==
  /\ Len(e.df) >= 1
  /\ \A i \in 1..Len(e.df) :
       /\ RequiredCols \cup {"skill_set"} \subseteq DOMAIN e.df[i]
       /\ e.df[i]["skill_set"] = ParseSkillCell(e.df[i]["Employee Skills"])
  /\ Len(e.embeddings) = Len(e.df)
  /\ \A i \in 1..Len(e.df) :
       e.embeddings[i] = Encode(e.df[i]["Employee Roles & Responsibilities"])
  /\ e.faiss_index = e.embeddings

\* C7: every registered engine is complete at all times, and an upload that
\* fails leaves the registry exactly as it was.
C7_AllOrNothing ==
  /\ [](\A id \in DOMAIN ENGINES : FullyBuilt(ENGINES[id]))
  /\ [][(resp'.op = "upload" /\ resp'.status # 201) => ENGINES' = ENGINES]_vars

\* An upload failed after its sheet was parsed (the encoder could not be
\* loaded) while the registry held a dataset.
C7_Witness ==
  /\ resp.op = "upload" /\ resp.status = 400
  /\ resp.error = "model"
  /\ DOMAIN ENGINES # {}

TrueSim(idx) ==
  InnerProduct(Encode(Frame[idx + 1]["Employee Roles & Responsibilities"]),
               Encode(req.query))

\* The row positions of the dataset.
Positions == 0..(Len(Frame) - 1)

Pooled == {Pool[p][1] : p \in Filled}

C11_HandlesStay ==
  [][/\ (resp'.op = "upload" /\ resp'.status = 201) =>
          /\ resp'.dataset_id \notin DOMAIN ENGINES
          /\ \A id \in DOMAIN ENGINES :
               id \in DOMAIN ENGINES' /\ ENGINES'[id] = ENGINES[id]
     /\ resp'.op = "search" => ENGINES' = ENGINES]_vars
====
